---- MODULE Spec2Model ----
(***************************************************************************)
(* A model of improved-backup-script.py: one run of HomeBackup.run_backup  *)
(* after another against a GitHub account, a home directory and a staging  *)
(* tree that persists between runs.  Every external command (gh, git, the  *)
(* file system) is a step whose outcome the environment chooses.           *)
(*                                                                         *)
(* Environment assumption: the git-config key github.user, when set, names *)
(* the account gh is authenticated as (the README the script writes asks   *)
(* the operator to set it to "YOUR_GITHUB_USERNAME").                      *)
(***************************************************************************)
EXTENDS Integers, Sequences, FiniteSets, TLC

\* ------------------------------------------------------------- bounds
MaxRuns == 2        \* runs of the script in one behaviour
MaxContent == 2     \* distinct contents of ~/.bashrc

Identities == {"alice", "bob"}   \* GitHub accounts the operator may have
None == "None"                    \* Python's None

\* ----------------------------------------------------- program constants
REPO_NAME == "home_backup"        \* get_or_create_repo's default repo_name

BASHRC == <<".bashrc">>
CUSTOM == <<".oh-my-zsh", "custom">>
THEMES == <<".oh-my-zsh", "custom", "themes">>
ALIASES == <<".oh-my-zsh", "custom", "aliases.zsh">>

\* self.CONFIG_PATHS, each path split at "/" as pathlib does
CONFIG_PATHS ==
    << <<".bashrc">>, <<".profile">>, <<".gitconfig">>, <<".ssh", "config">>,
       <<".config", "r">>, <<".julia", "config">>, <<".config", "pip">>,
       <<".local", "share", "jupyter", "kernels">>, <<".Rprofile">>,
       <<".Renviron">>, <<".config", "Code", "User", "settings.json">>,
       <<".config", "Code", "User", "keybindings.json">>,
       <<".config", "Code", "User", "snippets">>,
       <<".jupyter", "jupyter_notebook_config.py">>,
       <<".config", "matplotlib", "matplotlibrc">>, <<".zshrc">>,
       <<".zprofile">>, <<".oh-my-zsh", "custom">>,
       <<".oh-my-zsh", "custom", "themes">>,
       <<".oh-my-zsh", "custom", "plugins">>,
       <<".oh-my-zsh", "custom", "aliases.zsh">>,
       <<".oh-my-zsh", "custom", "functions.zsh">> >>

\* the text '\n'.join(self.IGNORE_PATTERNS) written to .gitignore
IGNORE_PATTERNS == "IGNORE_PATTERNS"
\* a .gitignore the operator wrote
CUSTOM_IGNORE == "custom-ignore"
README_CONTENT == "readme_content"

GITIGNORE == <<".gitignore">>
README == <<"README.md">>
CONFIGS == <<"configs">>
PKG_DIR == <<"package_lists">>

VARIABLES
    pc,          \* position of the current run in run_backup
    run,         \* number of runs started
    exitStatus,  \* -1 while the process runs, else its exit status
    account,     \* environment: the operator's GitHub account
    username,    \* GitHubManager.username
    repo_url,    \* run_backup's repo_url
    out,         \* lines printed by the current run
    requests,    \* GitHub API requests issued by the current run, with outcome
    steps,       \* later steps of run_backup executed by the current run
    urls,        \* endpoints returned by get_or_create_repo, one per call
    remote,      \* the repository <account>/home_backup on GitHub
    home,        \* the home directory
    staging,     \* the staging tree self.backup_dir (without .git)
    gitDir,      \* whether <backup_dir>/.git exists
    origin,      \* URL bound to the remote name 'origin', or None
    commits,     \* local history of the staging repository
    seeded,      \* .gitignore content the staging tree had when the run began
    idProbe,     \* what the identity commands answered in the current run
    mirror,      \* backup_configs' progress in the current run, entry by entry
    commitOutcome, \* what git commit answered in the current run
    pushOutcome, \* what git push answered in the current run
    remoteBefore, \* the GitHub repository as it was when the run began
    binding      \* the 'origin' binding setup_git_repo found and read back

vars == <<pc, run, exitStatus, account, username, repo_url, out, requests,
          steps, urls, remote, home, staging, gitDir, origin, commits, seeded,
          idProbe, mirror, commitOutcome, pushOutcome, remoteBefore, binding>>

\* ------------------------------------------------------------ file trees
\* A tree is [f |-> function from file path to content, d |-> set of
\* directory paths].  Paths are sequences of names.
EmptyTree == [f |-> <<>>, d |-> {}]
Files(t) == DOMAIN t.f
IsFile(t, p) == p \in Files(t)
IsDir(t, p) == p = <<>> \/ p \in t.d
Exists(t, p) == IsFile(t, p) \/ IsDir(t, p)
Prefixes(p) == {SubSeq(p, 1, n) : n \in 1..Len(p)}
Parent(p) == SubSeq(p, 1, Len(p) - 1)
IsUnder(p, q) == Len(p) > Len(q) /\ SubSeq(p, 1, Len(q)) = q

\* Path.mkdir(parents=True, exist_ok=True): fails when the path or one of
\* its parents is a file
MkdirOK(t, p) == \A q \in Prefixes(p) : ~IsFile(t, q)
\* a mkdir that makes the directory anew, dropping what it held
MkdirFresh(t, p) ==
    [t EXCEPT !.f = [q \in {x \in Files(t) : ~IsUnder(x, p)} |-> t.f[q]],
              !.d = {q \in @ : ~IsUnder(q, p)} \cup Prefixes(p)]
Mkdir(t, p) == [t EXCEPT !.d = @ \cup Prefixes(p)]
\* open(path, 'w').write(c)
WriteFile(t, p, c) ==
    [t EXCEPT !.f = (p :> c) @@ @]


\* ------------------------------------------------------- home directory
\* The home directories a run may find: ~/.bashrc with one of MaxContent
\* contents (0: no such file); ~/.oh-my-zsh/custom absent, a file, or a directory
\* holding aliases.zsh and themes/t.zsh-theme; one path may be unreadable.
\* The contents of ~/.bashrc vary in the homes without ~/.oh-my-zsh/custom.
CustomTree(shape) ==
    CASE shape = "absent" -> EmptyTree
      [] shape = "file" -> [f |-> (CUSTOM :> 1), d |-> {<<".oh-my-zsh">>}]
      [] shape = "dir" -> [f |-> (ALIASES :> 1) @@ ((THEMES \o <<"t.zsh-theme">>) :> 1),
                           d |-> {<<".oh-my-zsh">>, CUSTOM, THEMES}]
MkHome(b, shape, noread) ==
    LET c == CustomTree(shape)
    IN  [f |-> IF b = 0 THEN c.f ELSE (BASHRC :> b) @@ c.f,
         d |-> c.d,
         noread |-> noread]
HomeStates ==
    {MkHome(b, "absent", {}) : b \in 1..MaxContent}
    \cup {MkHome(1, shape, {}) : shape \in {"file", "dir"}}
    \cup {MkHome(1, "dir", {p}) : p \in {ALIASES, THEMES}}

\* --------------------------------------------------------------- GitHub
\* an endpoint that names the call that made it
RepoUrlPerCall(user, repo_name) ==
    "https://github.com/" \o user \o "/" \o repo_name \o "-" \o ToString(run) \o ".git"

\* f"https://github.com/{self.username}/{repo_name}.git"
RepoUrl(user, repo_name) ==
    "https://github.com/" \o user \o "/" \o repo_name \o ".git"

Absent == [exists |-> FALSE, content |-> <<>>, born |-> 0]
\* a repository of that name made before the first run, with its own history
FOREIGN == [run |-> 0, tree |-> <<>>]
Preexisting == [exists |-> TRUE, content |-> <<FOREIGN>>, born |-> 0]

\* a binding of 'origin' made before the first run, to another repository
OTHER_URL == "https://github.com/carol/dotfiles.git"
\* setup_git_repo has not reached the bindings in this run
NoBinding == [before |-> None, read |-> FALSE, listing |-> None]

\* an identity command that was not run
NotRun == [exc |-> "not run", stdout |-> ""]
NoProbe == [gh |-> NotRun, cfg |-> NotRun, fallback |-> FALSE, value |-> None,
            done |-> FALSE]

\* what an identity command can answer: its exception (or none) and stdout
CmdResults ==
    {[exc |-> "none", stdout |-> account], [exc |-> "none", stdout |-> ""],
     [exc |-> "CalledProcessError", stdout |-> ""],
     [exc |-> "FileNotFoundError", stdout |-> ""]}

\* GitHubManager._get_github_username: gh and cfg are the results of
\* 'gh api user --jq .login' and 'git config github.user'
_get_github_username(gh, cfg) ==
    IF gh.exc = "none" /\ gh.stdout # ""
    THEN [kind |-> "return", value |-> gh.stdout, fallback |-> FALSE,
          out |-> <<"Using GitHub username">>]
    ELSE IF gh.exc = "FileNotFoundError"
    THEN [kind |-> "raise", value |-> None, fallback |-> FALSE,
          out |-> <<"Traceback">>]
    ELSE LET o == IF gh.exc = "CalledProcessError"
                  THEN <<"Error getting GitHub username via gh cli">> ELSE <<>>
         IN  IF cfg.exc = "none" /\ cfg.stdout # ""
             THEN [kind |-> "return", value |-> cfg.stdout, fallback |-> TRUE,
                   out |-> o \o <<"Using GitHub username from git config">>]
             ELSE IF cfg.exc = "FileNotFoundError"
             THEN [kind |-> "raise", value |-> None, fallback |-> TRUE,
                   out |-> o \o <<"Traceback">>]
             ELSE [kind |-> "exit", value |-> None, fallback |-> TRUE,
                   out |-> o \o <<"Could not determine GitHub username automatically.",
                                  "Please run: git config --global github.user YOUR_GITHUB_USERNAME">>]

\* an existence check that takes every failure but "Not Found" for existence
VerifyUnknownAsExists(returncode, notFound) ==
    IF returncode = 0 THEN <<TRUE, "exists", RepoUrl(username, REPO_NAME)>>
    ELSE IF notFound THEN <<FALSE, "not_found", None>>
    ELSE <<TRUE, "unknown", None>>

\* GitHubManager._verify_repo_status: <<exists, status_message, repo_url>>
\* from the return code of 'gh api /repos/<user>/<repo>' and whether its
\* stderr holds "message": "Not Found"
_verify_repo_status(returncode, notFound) ==
    IF returncode = 0 THEN <<TRUE, "exists", RepoUrl(username, REPO_NAME)>>
    ELSE IF notFound THEN <<FALSE, "not_found", None>>
    ELSE <<FALSE, "unknown", None>>

\* GitHubManager._delete_repo
_delete_repo(returncode) == returncode = 0

\* get_or_create_repo, after the existence check: delete first, or create
AfterVerify(exists) == IF exists THEN "delete" ELSE "create"
\* get_or_create_repo, after _delete_repo answered
AfterDelete(deleted) == IF deleted THEN "create" ELSE "exited"
\* a run that goes on although the create request failed
AfterCreateIgnored(returncode) == "pkg"

\* get_or_create_repo, after the create request answered
AfterCreate(returncode) == IF returncode = 0 THEN "pkg" ELSE "exited"

\* ---------------------------------------------------------- tree mirror
\* the elements of a finite set, in one fixed order
RECURSIVE SetToSeq(_)
SetToSeq(S) ==
    IF S = {} THEN <<>>
    ELSE LET x == CHOOSE y \in S : TRUE IN <<x>> \o SetToSeq(S \ {x})

\* os.walk(src): the directories under src top-down; a directory that cannot
\* be listed is skipped without a word (onerror is None)
RECURSIVE Walk(_, _)
RECURSIVE WalkAll(_, _)
Walk(h, root) ==
    IF root \in h.noread THEN <<>>
    ELSE <<root>> \o WalkAll(h, SetToSeq({q \in h.d : Len(q) > 0 /\ Parent(q) = root}))
WalkAll(h, roots) ==
    IF roots = <<>> THEN <<>>
    ELSE Walk(h, Head(roots)) \o WalkAll(h, Tail(roots))

\* shutil.copy2(src_file, dst_file): where the copy lands (inside dst_file
\* when that is a directory) and whether it raises
CopyTarget(t, src_file, dst_file) ==
    IF IsDir(t, dst_file) THEN Append(dst_file, src_file[Len(src_file)]) ELSE dst_file
CopyError(h, t, src_file, dst_file) ==
    IF src_file \in h.noread THEN "PermissionError"
    ELSE IF IsDir(t, CopyTarget(t, src_file, dst_file)) THEN "IsADirectoryError"
    ELSE "none"
Copy2(h, t, src_file, dst_file) ==
    WriteFile(t, CopyTarget(t, src_file, dst_file), h.f[src_file])

\* the line printed for a file of a directory entry that could not be copied
FileWarning(error) ==
    IF error = "PermissionError" THEN "Warning: Permission denied for"
    ELSE "Warning: Couldn't copy"

\* backup_configs, lines 221-229: the files of one walked directory, each in
\* its own try
RECURSIVE CopyFiles(_, _, _, _, _)
CopyFiles(h, acc, files, root, dst_root) ==
    IF files = <<>> THEN acc
    ELSE LET src_file == Head(files)
             dst_file == Append(dst_root, src_file[Len(src_file)])
             err == CopyError(h, acc.t, src_file, dst_file)
             next == IF err = "none"
                     THEN [acc EXCEPT !.t = Copy2(h, acc.t, src_file, dst_file),
                                      !.copied = @ \cup {src_file}]
                     ELSE [acc EXCEPT !.failed = @ \cup {src_file},
                                      !.lines = Append(@, <<FileWarning(err), src_file>>)]
         IN  CopyFiles(h, next, Tail(files), root, dst_root)

\* backup_configs, lines 216-229: the walk of a directory entry; a
\* dst_root.mkdir that raises ends the walk (acc.raised)
RECURSIVE CopyWalk(_, _, _, _, _)
CopyWalk(h, acc, roots, src, dst) ==
    IF roots = <<>> \/ acc.raised THEN acc
    ELSE LET root == Head(roots)
             dst_root == dst \o SubSeq(root, Len(src) + 1, Len(root))
         IN  IF ~MkdirOK(acc.t, dst_root)
             THEN [acc EXCEPT !.raised = TRUE]
             ELSE CopyWalk(h,
                           CopyFiles(h, [acc EXCEPT !.t = Mkdir(@, dst_root)],
                                     SetToSeq({q \in Files(h) : Parent(q) = root}),
                                     root, dst_root),
                           Tail(roots), src, dst)

\* the entry-level line of backup_configs (lines 231 and 233)
EntryLine(raised, config_path) ==
    IF raised THEN <<"Warning: Couldn't backup", config_path>>
    ELSE <<"Backed up", config_path>>

\* backup_configs, lines 207-233: one pass of the loop body over the staging
\* tree t.  crashed: dst.parent.mkdir raised, outside every try.
BackupEntry(h, t, config_path) ==
    LET dst == CONFIGS \o config_path
        none == [t |-> t, copied |-> {}, failed |-> {}, lines |-> <<>>,
                 raised |-> FALSE]
    IN  IF ~Exists(h, config_path)
        THEN none @@ [present |-> FALSE, crashed |-> FALSE]
        ELSE IF ~MkdirOK(t, Parent(dst))
        THEN none @@ [present |-> TRUE, crashed |-> TRUE]
        ELSE LET t1 == Mkdir(t, Parent(dst))
                 r == IF IsFile(h, config_path)
                      THEN IF CopyError(h, t1, config_path, dst) = "none"
                           THEN [none EXCEPT !.t = Copy2(h, t1, config_path, dst),
                                             !.copied = {config_path}]
                           ELSE [none EXCEPT !.t = t1, !.failed = {config_path},
                                             !.raised = TRUE]
                      ELSE CopyWalk(h, [none EXCEPT !.t = t1],
                                    Walk(h, config_path), config_path, dst)
             IN  [r EXCEPT !.lines = Append(@, EntryLine(r.raised, config_path))]
                 @@ [present |-> TRUE, crashed |-> FALSE]

\* backup_configs' loop from entry i on: the staging tree it leaves, the
\* per-entry log, and whether an exception left the method
RECURSIVE MirrorFrom(_, _, _, _)
MirrorFrom(h, t, log, i) ==
    IF i > Len(CONFIG_PATHS) THEN [t |-> t, log |-> log, crashed |-> FALSE]
    ELSE LET r == BackupEntry(h, t, CONFIG_PATHS[i])
             rec == [entry |-> i, present |-> r.present, copied |-> r.copied,
                     failed |-> r.failed, lines |-> r.lines]
         IN  IF r.crashed
             THEN [t |-> r.t, log |-> Append(log, rec), crashed |-> TRUE]
             ELSE MirrorFrom(h, r.t, Append(log, rec), i + 1)

\* HomeBackup.backup_configs
backup_configs(h, t) ==
    IF ~MkdirOK(t, CONFIGS) THEN [t |-> t, log |-> <<>>, crashed |-> TRUE]
    ELSE MirrorFrom(h, Mkdir(t, CONFIGS), <<>>, 1)

\* ------------------------------------------------------------- actions
\* sys.exit(code) after printing msgs; an uncaught exception ends the
\* process with a traceback and status 1
Terminate(code, msgs) ==
    /\ pc' = "exited"
    /\ exitStatus' = code
    /\ out' = out \o msgs

Init ==
    /\ pc = "idle"
    /\ run = 0
    /\ exitStatus = -1
    /\ account \in Identities
    /\ username = None
    /\ repo_url = None
    /\ out = <<>>
    /\ requests = <<>>
    /\ steps = {}
    /\ urls = <<>>
    /\ remote \in {Absent, Preexisting}
    /\ home = MkHome(0, "absent", {})
    /\ staging \in {EmptyTree, WriteFile(EmptyTree, GITIGNORE, CUSTOM_IGNORE)}
    /\ gitDir \in BOOLEAN
    /\ origin = IF gitDir THEN OTHER_URL ELSE None
    /\ commits = <<>>
    /\ seeded = None
    /\ idProbe = NoProbe
    /\ mirror = <<>>
    /\ commitOutcome = None
    /\ pushOutcome = None
    /\ remoteBefore = Absent
    /\ binding = NoBinding

\* The operator starts the script: HomeBackup(Path.home() / 'home_backup')
\* and run_backup's banner.  The home directory is what the operator made
\* of it since the last run.
StartRun ==
    /\ pc \in {"idle", "exited"}
    /\ run < MaxRuns
    /\ run' = run + 1
    /\ pc' = "username"
    /\ exitStatus' = -1
    /\ username' = None
    /\ repo_url' = None
    /\ out' = <<"Starting backup process...">>
    /\ requests' = <<>>
    /\ steps' = {}
    /\ idProbe' = NoProbe
    /\ mirror' = <<>>
    /\ commitOutcome' = None
    /\ pushOutcome' = None
    /\ remoteBefore' = remote
    /\ binding' = NoBinding
    /\ home' \in HomeStates
    /\ seeded' = IF IsFile(staging, GITIGNORE) THEN staging.f[GITIGNORE] ELSE None
    /\ UNCHANGED <<account, urls, remote, staging, gitDir, origin, commits>>

\* github = GitHubManager(): __init__ resolves the identity
GetGithubUsername ==
    /\ pc = "username"
    /\ \E gh \in CmdResults, cfg \in CmdResults :
        LET r == _get_github_username(gh, cfg)
        IN  /\ ~r.fallback => cfg = [exc |-> "none", stdout |-> ""]
            /\ idProbe' = [gh |-> gh, cfg |-> IF r.fallback THEN cfg ELSE NotRun,
                           fallback |-> r.fallback, value |-> r.value, done |-> TRUE]
            /\ username' = r.value
            /\ IF r.kind = "return"
               THEN /\ pc' = "auth"
                    /\ out' = out \o r.out
                    /\ UNCHANGED exitStatus
               ELSE Terminate(1, r.out)
    /\ UNCHANGED <<run, account, repo_url, requests, steps, urls, remote, home,
                   staging, gitDir, origin, commits, seeded, mirror, commitOutcome,
                   pushOutcome, remoteBefore, binding>>

\* get_or_create_repo: 'gh auth status'
AuthStatus ==
    /\ pc = "auth"
    /\ \E ok \in BOOLEAN :
        /\ requests' = Append(requests, [req |-> "auth", ok |-> ok])
        /\ IF ok
           THEN /\ pc' = "verify"
                /\ out' = Append(out, "Checking GitHub repository status...")
                /\ UNCHANGED exitStatus
           ELSE Terminate(1, <<"Checking GitHub repository status...",
                               "Not authenticated with GitHub. Please run 'gh auth login' first.">>)
    /\ UNCHANGED <<run, account, username, repo_url, steps, urls, remote, home,
                   staging, gitDir, origin, commits, seeded, idProbe, mirror,
                   commitOutcome, pushOutcome, remoteBefore, binding>>

\* get_or_create_repo: exists, _, _ = self._verify_repo_status(repo_name)
VerifyRepoStatus ==
    /\ pc = "verify"
    /\ \E returncode \in {0, 1}, notFound \in BOOLEAN :
        /\ returncode = 0 => remote.exists /\ ~notFound
        /\ notFound => ~remote.exists
        /\ LET v == _verify_repo_status(returncode, notFound)
           IN  /\ requests' = Append(requests, [req |-> "get", ok |-> v[1], status |-> v[2],
                                               before |-> remote])
               /\ pc' = AfterVerify(v[1])
    /\ UNCHANGED <<run, exitStatus, account, username, repo_url, out, steps, urls,
                   remote, home, staging, gitDir, origin, commits, seeded, idProbe,
                   mirror, commitOutcome, pushOutcome, remoteBefore, binding>>

\* get_or_create_repo: if not self._delete_repo(repo_name): sys.exit(1)
DeleteRepo ==
    /\ pc = "delete"
    /\ \E returncode \in {0, 1} :
        /\ returncode = 0 => remote.exists
        /\ requests' = Append(requests, [req |-> "delete", ok |-> _delete_repo(returncode)])
        /\ remote' = IF returncode = 0 THEN Absent ELSE remote
        /\ IF AfterDelete(_delete_repo(returncode)) = "exited"
           THEN Terminate(1, <<"Deleting existing repository", "Failed to delete existing repository.">>)
           ELSE /\ pc' = AfterDelete(_delete_repo(returncode))
                /\ out' = Append(out, "Deleting existing repository")
                /\ UNCHANGED exitStatus
    /\ UNCHANGED <<run, account, username, repo_url, steps, urls, home, staging,
                   gitDir, origin, commits, seeded, idProbe, mirror, commitOutcome,
                   pushOutcome, remoteBefore, binding>>

\* get_or_create_repo: POST /user/repos, then return the endpoint or exit
CreateRepo ==
    /\ pc = "create"
    /\ \E returncode \in {0, 1} :
        /\ returncode = 0 => ~remote.exists
        /\ requests' = Append(requests, [req |-> "create", ok |-> returncode = 0])
        /\ remote' = IF returncode = 0
                     THEN [exists |-> TRUE, content |-> <<>>, born |-> run]
                     ELSE remote
        /\ IF AfterCreate(returncode) = "exited"
           THEN /\ Terminate(1, <<"Error creating repository">>)
                /\ UNCHANGED <<repo_url, urls>>
           ELSE /\ pc' = AfterCreate(returncode)
                /\ out' = Append(out, "Successfully created repository")
                /\ repo_url' = RepoUrl(username, REPO_NAME)
                /\ urls' = Append(urls, RepoUrl(username, REPO_NAME))
                /\ UNCHANGED exitStatus
    /\ UNCHANGED <<run, account, username, steps, home, staging, gitDir, origin,
                   commits, seeded, idProbe, mirror, commitOutcome, pushOutcome,
                   remoteBefore, binding>>

\* what the package managers answer: the tools that are installed and work
ToolSets == {{"pip", "R", "julia"}}

\* HomeBackup.save_package_lists: python_packages.txt is opened for writing
\* before pip runs; R and julia write their own file when they work
save_package_lists(t, tools) ==
    LET t0 == Mkdir(t, PKG_DIR)
        t1 == WriteFile(t0, Append(PKG_DIR, "python_packages.txt"),
                        IF "pip" \in tools THEN "pip freeze" ELSE "")
        t2 == IF "R" \in tools
              THEN WriteFile(t1, Append(PKG_DIR, "packages.txt"), "installed.packages") ELSE t1
    IN  IF "julia" \in tools
        THEN WriteFile(t2, Append(PKG_DIR, "julia_packages.txt"), "Pkg.dependencies") ELSE t2

SavePackageLists ==
    /\ pc = "pkg"
    /\ \E tools \in ToolSets : staging' = save_package_lists(staging, tools)
    /\ steps' = steps \cup {"pkg"}
    /\ out' = Append(out, "Backing up package lists...")
    /\ pc' = "omz"
    /\ UNCHANGED <<run, exitStatus, account, username, repo_url, requests, urls,
                   remote, home, gitDir, origin, commits, seeded, idProbe, mirror,
                   commitOutcome, pushOutcome, remoteBefore, binding>>

\* names of the entries of directory dir that are directories (dirs = TRUE)
\* or files: Path.glob('*') with is_dir() / is_file(); nothing when dir is
\* no directory or cannot be listed
GlobNames(h, dir, dirs) ==
    IF ~IsDir(h, dir) \/ dir \in h.noread THEN {}
    ELSE {q[Len(q)] : q \in {x \in (IF dirs THEN h.d ELSE Files(h)) :
                                Len(x) > 0 /\ Parent(x) = dir}}

\* HomeBackup.save_omz_lists: the module never imports re, so reading
\* ~/.zshrc ends in a NameError that the first try reports as a warning
save_omz_lists(h, t) ==
    LET t0 == Mkdir(t, PKG_DIR)
        warn == IF Exists(h, <<".zshrc">>)
                THEN <<"Warning: Couldn't save Oh My Zsh configuration">> ELSE <<>>
    IN  IF Exists(h, CUSTOM)
        THEN [t |-> WriteFile(WriteFile(t0, Append(PKG_DIR, "omz_custom_plugins.txt"),
                                        GlobNames(h, Append(CUSTOM, "plugins"), TRUE)),
                              Append(PKG_DIR, "omz_custom_themes.txt"),
                              GlobNames(h, THEMES, FALSE)),
              out |-> warn \o <<"Saved Oh My Zsh custom plugins list",
                                "Saved Oh My Zsh custom themes list">>]
        ELSE [t |-> t0, out |-> warn]

SaveOmzLists ==
    /\ pc = "omz"
    /\ staging' = save_omz_lists(home, staging).t
    /\ out' = out \o <<"Saving Oh My Zsh stuff...">> \o save_omz_lists(home, staging).out
    /\ steps' = steps \cup {"omz"}
    /\ pc' = "configs"
    /\ UNCHANGED <<run, exitStatus, account, username, repo_url, requests, urls,
                   remote, home, gitDir, origin, commits, seeded, idProbe, mirror,
                   commitOutcome, pushOutcome, remoteBefore, binding>>

\* a path as text, its names joined by "/"
RECURSIVE PathText(_)
PathText(p) ==
    IF Len(p) = 1 THEN p[1] ELSE p[1] \o "/" \o PathText(Tail(p))

\* the text of the lines <<message, path>> printed for one entry
RECURSIVE LinesText(_)
LinesText(lines) ==
    IF lines = <<>> THEN <<>>
    ELSE <<Head(lines)[1] \o " " \o PathText(Head(lines)[2])>> \o LinesText(Tail(lines))

\* the lines a mirror log prints, in order
RECURSIVE LogLines(_)
LogLines(log) ==
    IF log = <<>> THEN <<>> ELSE LinesText(Head(log).lines) \o LogLines(Tail(log))

\* run_backup's call of backup_configs: an exception leaving it ends the run
BackupConfigs ==
    /\ pc = "configs"
    /\ LET r == backup_configs(home, staging)
       IN  /\ staging' = r.t
           /\ mirror' = r.log
           /\ steps' = steps \cup {"configs"}
           /\ IF r.crashed
              THEN Terminate(1, <<"Backing up config files...">> \o LogLines(r.log)
                                \o <<"Traceback">>)
              ELSE /\ pc' = "readme"
                   /\ out' = out \o <<"Backing up config files...">> \o LogLines(r.log)
                   /\ UNCHANGED exitStatus
    /\ UNCHANGED <<run, account, username, repo_url, requests, urls, remote, home,
                   gitDir, origin, commits, seeded, idProbe, commitOutcome,
                   pushOutcome, remoteBefore, binding>>

\* HomeBackup.create_readme: the write in a try; a failure is a warning
create_readme(t, ok) ==
    IF ok THEN [t |-> WriteFile(t, README, README_CONTENT), out |-> <<"Created README.md">>]
    ELSE [t |-> t, out |-> <<"Warning: Couldn't create README.md">>]

\* whether the write of README.md succeeds
ReadmeWrites == {TRUE}

CreateReadme ==
    /\ pc = "readme"
    /\ \E ok \in ReadmeWrites :
        /\ staging' = create_readme(staging, ok).t
        /\ out' = out \o <<"Creating documentation...">> \o create_readme(staging, ok).out
    /\ steps' = steps \cup {"readme"}
    /\ pc' = "git_init"
    /\ UNCHANGED <<run, exitStatus, account, username, repo_url, requests, urls,
                   remote, home, gitDir, origin, commits, seeded, idProbe, mirror,
                   commitOutcome, pushOutcome, remoteBefore, binding>>

\* setup_git_repo, lines 469-475: whether .gitignore is written
WritesIgnore(gitExists) == ~gitExists

\* setup_git_repo: git init and the ignore file, only without a .git
SetupGitInit ==
    /\ pc = "git_init"
    /\ steps' = steps \cup {"git_init"}
    /\ \E initOK \in BOOLEAN :
        IF ~WritesIgnore(gitDir)
        THEN /\ initOK
             /\ pc' = "remote"
             /\ out' = Append(out, "Setting up git repository...")
             /\ UNCHANGED <<exitStatus, gitDir, staging>>
        ELSE IF initOK
        THEN /\ gitDir' = TRUE
             /\ staging' = WriteFile(staging, GITIGNORE, IGNORE_PATTERNS)
             /\ pc' = "remote"
             /\ out' = Append(out, "Setting up git repository...")
             /\ UNCHANGED exitStatus
        ELSE /\ Terminate(1, <<"Setting up git repository...", "Traceback">>)
             /\ UNCHANGED <<gitDir, staging>>
    /\ UNCHANGED <<run, account, username, repo_url, requests, urls, remote, home,
                   origin, commits, seeded, idProbe, mirror, commitOutcome,
                   pushOutcome, remoteBefore, binding>>

\* a read-back whose result is not consulted
RemoteUnverified(url, listing) == TRUE

\* setup_git_repo, lines 488-496: repo_url must occur in 'git remote -v'
RemoteVerified(url, listing) == listing = url

\* setup_git_repo: remove 'origin' (failure ignored), add it (check=True),
\* read the bindings back
SetupGitRemote ==
    /\ pc = "remote"
    /\ steps' = steps \cup {"remote"}
    /\ \E removeOK \in BOOLEAN, addOK \in BOOLEAN, listOK \in BOOLEAN :
        LET o1 == IF removeOK THEN None ELSE origin
            added == addOK /\ o1 = None
            o2 == IF added THEN repo_url ELSE o1
            listing == IF listOK THEN o2 ELSE None
        IN  /\ removeOK => origin # None
            /\ origin' = o2
            /\ binding' = [before |-> origin, read |-> added,
                            listing |-> IF added THEN listing ELSE None]
            /\ IF ~added
               THEN /\ listOK
                    /\ Terminate(1, <<"Traceback">>)
               ELSE IF RemoteVerified(repo_url, listing)
               THEN /\ pc' = "commit"
                    /\ UNCHANGED <<out, exitStatus>>
               ELSE Terminate(1, <<"Warning: Remote URL verification failed">>)
    /\ UNCHANGED <<run, account, username, repo_url, requests, urls, remote, home,
                   staging, gitDir, commits, seeded, idProbe, mirror,
                   commitOutcome, pushOutcome, remoteBefore>>

\* a 'git add' that stages the README alone
TrackedReadmeOnly(t) == [p \in Files(t) \cap {README} |-> t.f[p]]

\* the tree 'git add .' stages and the tree of the last commit
Tracked(t) == t.f
HeadTree == IF commits = <<>> THEN <<>> ELSE commits[Len(commits)].tree

\* what 'git commit' can answer for the staged tree
CommitOutcomes(tree) ==
    (IF tree = HeadTree THEN {"nothingToCommit"} ELSE {"success"}) \cup {"error"}

\* setup_git_repo, lines 500-507: the line the commit step prints
CommitReport(outcome) ==
    IF outcome = "success" THEN "Committed changes" ELSE "No changes to commit"

\* setup_git_repo: git add . (check=True) and git commit in a bare except
SetupGitCommit ==
    /\ pc = "commit"
    /\ steps' = steps \cup {"commit"}
    /\ \E addOK \in BOOLEAN, outcome \in CommitOutcomes(Tracked(staging)) :
        IF ~addOK
        THEN /\ outcome = "error"
             /\ Terminate(1, <<"Traceback">>)
             /\ UNCHANGED <<commits, commitOutcome>>
        ELSE /\ commits' = IF outcome = "success"
                           THEN Append(commits, [run |-> run, tree |-> Tracked(staging)])
                           ELSE commits
             /\ commitOutcome' = outcome
             /\ out' = Append(out, CommitReport(outcome))
             /\ pc' = "push"
             /\ UNCHANGED exitStatus
    /\ UNCHANGED <<run, account, username, repo_url, requests, urls, remote, home,
                   staging, gitDir, origin, seeded, idProbe, mirror, pushOutcome,
                   remoteBefore, binding>>

\* a push failure that ends the run
PushFailedFatal == [status |-> 1, out |-> <<"Warning: Error pushing to remote">>]

\* setup_git_repo, lines 510-517: what a failed push leads to
PushFailed == [status |-> 0,
               out |-> <<"Warning: Error pushing to remote", "Manual push may be needed:",
                         "git push -u origin main">>]

\* setup_git_repo: git push -u origin main, then run_backup's closing lines
SetupGitPush ==
    /\ pc = "push"
    /\ steps' = steps \cup {"push"}
    /\ \E ok \in BOOLEAN :
        /\ ok => commits # <<>> /\ remote.exists /\ origin = RepoUrl(account, REPO_NAME)
        /\ pushOutcome' = IF ok THEN "success" ELSE "error"
        /\ IF ok
           THEN /\ remote' = [remote EXCEPT !.content = commits]
                /\ Terminate(0, <<"Pushed to remote", "Backup completed!">>)
           ELSE /\ UNCHANGED remote
                /\ IF PushFailed.status = 0
                   THEN Terminate(0, PushFailed.out \o <<"Backup completed!">>)
                   ELSE Terminate(PushFailed.status, PushFailed.out)
    /\ UNCHANGED <<run, account, username, repo_url, requests, urls, home, staging,
                   gitDir, origin, commits, seeded, idProbe, mirror, commitOutcome,
                   remoteBefore, binding>>

Next ==
    \/ StartRun
    \/ GetGithubUsername
    \/ AuthStatus
    \/ VerifyRepoStatus
    \/ DeleteRepo
    \/ CreateRepo
    \/ SavePackageLists
    \/ SaveOmzLists
    \/ BackupConfigs
    \/ CreateReadme
    \/ SetupGitInit
    \/ SetupGitRemote
    \/ SetupGitCommit
    \/ SetupGitPush

Spec == Init /\ [][Next]_vars


\* ================================================================ claims
InOut(line) == \E i \in DOMAIN out : out[i] = line
Requested(kind) == {i \in DOMAIN requests : requests[i].req = kind}

\* C1: no package-list write, config copy, README write, commit or push
\* happens in a run unless that run's create request succeeded; a failed
\* auth check, delete or create is the run's last request, is never
\* repeated, and ends the process at once with status 1 and none of the
\* later steps executed.
C1_NoStepBeforeCreate ==
    /\ steps # {} => \E i \in Requested("create") : requests[i].ok
    /\ \A kind \in {"auth", "get", "delete", "create"} : Cardinality(Requested(kind)) <= 1
    /\ \A i \in DOMAIN requests :
        (requests[i].req \in {"auth", "delete", "create"} /\ ~requests[i].ok)
        => /\ i = Len(requests)
           /\ pc = "exited"
           /\ exitStatus = 1
           /\ steps = {}
\* C1 witness: a run ended by a failed create request
C1_Witness ==
    /\ pc = "exited"
    /\ exitStatus = 1
    /\ \E i \in Requested("create") : ~requests[i].ok
    /\ \E i \in Requested("delete") : requests[i].ok

\* C2: the existence check answers exists, not_found or unknown; a delete
\* request is issued exactly when it answered exists, and otherwise the
\* create request follows it directly; when the repository existed and the
\* check answered unknown, the create request fails and the run ends with
\* status 1 and the repository as it was.
C2_DeleteIffExists ==
    \A i \in Requested("get") :
        /\ requests[i].status \in {"exists", "not_found", "unknown"}
        /\ requests[i].status = "exists"
           => IF i = Len(requests) THEN pc = "delete" ELSE requests[i + 1].req = "delete"
        /\ requests[i].status # "exists"
           => /\ Requested("delete") = {}
              /\ IF i = Len(requests) THEN pc = "create" ELSE requests[i + 1].req = "create"
        /\ (requests[i].status = "unknown" /\ requests[i].before.exists /\ i < Len(requests))
           => /\ ~requests[i + 1].ok
              /\ pc = "exited"
              /\ exitStatus = 1
              /\ remote = requests[i].before
\* C2 witness: the repository exists, the check answers unknown, the create
\* request fails
C2_Witness ==
    \E i \in Requested("get") :
        /\ requests[i].status = "unknown"
        /\ requests[i].before.exists
        /\ requests[i].before.content # <<>>
        /\ i < Len(requests)
        /\ pc = "exited"

\* C3: whenever get_or_create_repo has returned, the repository exists, was
\* created by this call and is empty, and the endpoint returned is
\* https://github.com/<identity>/home_backup.git, the one every earlier call
\* returned.
C3_ReconcileTwice ==
    /\ \A k \in DOMAIN urls :
        /\ urls[k] = urls[1]
        /\ urls[k] = "https://github.com/" \o account \o "/home_backup.git"
    /\ pc = "pkg" => /\ remote = [exists |-> TRUE, content |-> <<>>, born |-> run]
                     /\ urls # <<>>
                     /\ repo_url = urls[Len(urls)]
\* C3 witness: the second call has just returned, after deleting the
\* repository the first call created
C3_Witness ==
    /\ pc = "pkg"
    /\ Len(urls) = 2
    /\ remoteBefore.born = 1
    /\ \E i \in Requested("delete") : requests[i].ok

\* the files of home directory h at or under the path of a config entry
FilesOf(h, config_path) ==
    {q \in Files(h) : q = config_path \/ IsUnder(q, config_path)}

\* C4 (as claimed): once backup_configs has run, every entry of CONFIG_PATHS
\* was visited, every file of an entry that did not itself fail to copy was
\* copied, and the run went on to the README and the synchronizer.
C4_MirrorNeverAborts ==
    "configs" \in steps =>
        /\ Len(mirror) = Len(CONFIG_PATHS)
        /\ \A i \in DOMAIN mirror :
            \A q \in FilesOf(home, CONFIG_PATHS[mirror[i].entry]) :
                (q \notin home.noread /\ \A d \in Prefixes(q) : d \notin home.noread)
                => q \in mirror[i].copied \/ q \in mirror[i].failed
        /\ pc = "exited" => {"readme", "git_init"} \subseteq steps

\* C5 (as claimed): a .gitignore that was in the staging tree when the run
\* began has the same content throughout the run.
C5_IgnoreNeverAltered ==
    seeded # None => IsFile(staging, GITIGNORE) /\ staging.f[GITIGNORE] = seeded

InSeq(x, seq) == \E i \in DOMAIN seq : seq[i] = x

\* C6 (as claimed): when the repository existed before the run and the run
\* completed, the repository exists and holds the commit this run made from
\* the staging tree, and nothing that the old repository held.
C6_FreshCommitAfterRun ==
    (remoteBefore.exists /\ pc = "exited" /\ exitStatus = 0)
    => /\ remote.exists
       /\ \E i \in DOMAIN remote.content :
            remote.content[i] = [run |-> run, tree |-> staging.f]
       /\ \A i \in DOMAIN remote.content : ~InSeq(remote.content[i], remoteBefore.content)

\* C6 (amended): when the repository existed before the run and the run
\* completed with a successful push, the repository exists, was created in
\* this run, and holds exactly the local history of the staging repository:
\* its last commit is the one this run made from the staging tree when the
\* commit step succeeded, and it holds nothing of the old repository that
\* the local history does not hold.
C6_PushedHistoryAfterRun ==
    (remoteBefore.exists /\ pc = "exited" /\ exitStatus = 0 /\ pushOutcome = "success")
    => /\ remote.exists
       /\ remote.born = run
       /\ remote.content = commits
       /\ commitOutcome = "success"
          => remote.content[Len(remote.content)] = [run |-> run, tree |-> staging.f]
       /\ \A i \in DOMAIN remote.content :
            InSeq(remote.content[i], remoteBefore.content)
            => InSeq(remote.content[i], commits)
\* C6 witness: the repository existed with a history of its own, and the
\* run committed and pushed
C6_Witness ==
    /\ remoteBefore.exists
    /\ remoteBefore.content # <<>>
    /\ pc = "exited"
    /\ exitStatus = 0
    /\ pushOutcome = "success"
    /\ commitOutcome = "success"

\* C7 (as claimed): a commit that fails for another reason than "nothing to
\* commit" is not reported with the nothing-to-commit line, a commit with
\* nothing to commit is, and neither ends the run.
C7_CommitErrorDistinct ==
    /\ commitOutcome = "error" => ~InOut("No changes to commit")
    /\ commitOutcome = "nothingToCommit" => InOut("No changes to commit")
    /\ commitOutcome \in {"error", "nothingToCommit"} => "push" \in steps \/ pc = "push"

\* C8: a failed push prints the manual recovery command, reaches the
\* completion report and ends the process with status 0, and leaves the
\* local history and the staging tree as they were.
C8_PushFailureNotFatal ==
    [][(pc = "push" /\ pushOutcome' = "error")
       => /\ pc' = "exited"
          /\ exitStatus' = 0
          /\ \E i \in DOMAIN out' : out'[i] = "git push -u origin main"
          /\ out'[Len(out')] = "Backup completed!"
          /\ commits' = commits
          /\ staging' = staging
          /\ gitDir' = gitDir]_vars
\* C8 witness: a run that committed, failed to push and ended with status 0
C8_Witness ==
    /\ pushOutcome = "error"
    /\ commitOutcome = "success"
    /\ pc = "exited"
    /\ exitStatus = 0

\* the kinds of the lines backup_configs printed for one entry
RECURSIVE LineKinds(_)
LineKinds(lines) ==
    IF lines = <<>> THEN <<>> ELSE <<Head(lines)[1]>> \o LineKinds(Tail(lines))

\* C9 (as claimed): what the mirror prints for an entry tells its outcome:
\* nothing for an absent source, the report of a full copy exactly when
\* every file of the entry was copied, and something else when a file of
\* the entry was not copied.
C9_ThreeOutcomes ==
    \A i \in DOMAIN mirror :
        LET rec == mirror[i]
            all == FilesOf(home, CONFIG_PATHS[rec.entry])
        IN  /\ ~rec.present <=> rec.lines = <<>>
            /\ (rec.present /\ pc # "exited")
               => (LineKinds(rec.lines) = <<"Backed up">> <=> all \subseteq rec.copied)

\* C10 (as claimed): when gh yields no login the git-config fallback is
\* consulted; the identity is gh's login if there is one, else the
\* fallback's value if there is one; exactly when neither yields a value the
\* run prints the remediation line and ends with status 1, before any
\* request; the identity resolved stays for the rest of the run.
C10_IdentityFallback ==
    idProbe.done =>
        LET primary == IF idProbe.gh.exc = "none" THEN idProbe.gh.stdout ELSE ""
            secondary == IF idProbe.fallback /\ idProbe.cfg.exc = "none"
                         THEN idProbe.cfg.stdout ELSE ""
            remediation == "Please run: git config --global github.user YOUR_GITHUB_USERNAME"
        IN  /\ primary = "" => idProbe.fallback
            /\ primary # "" => username = primary
            /\ (primary = "" /\ secondary # "") => username = secondary
            /\ (primary = "" /\ secondary = "")
               <=> (InOut(remediation) /\ pc = "exited" /\ exitStatus = 1 /\ requests = <<>>)
            /\ username = idProbe.value

\* C11: whatever 'origin' was bound to before setup_git_repo (nothing, the
\* same URL or another URL), staging, commit and push are reached only after
\* 'origin' was bound to the reconciled endpoint and reading the bindings
\* back showed that endpoint; a run whose binding step did not read the
\* endpoint back has ended with status 1 without staging, committing or
\* pushing.
C11_OriginRebound ==
    LET verified == binding.read /\ binding.listing = repo_url
        synchronizing == pc \in {"commit", "push"} \/ "commit" \in steps \/ "push" \in steps
    IN  /\ synchronizing
           => /\ verified
              /\ origin = repo_url
              /\ urls # <<>>
              /\ repo_url = urls[Len(urls)]
              /\ binding.before \in {None, repo_url, OTHER_URL}
        /\ ("remote" \in steps /\ ~verified)
           => /\ pc = "exited"
              /\ exitStatus = 1
              /\ "commit" \notin steps
              /\ "push" \notin steps
              /\ commitOutcome = None
              /\ pushOutcome = None
\* C11 witness: the staging repository was bound to another URL when the run
\* began, and the run has pushed with 'origin' at the reconciled endpoint
C11_Witness ==
    /\ binding.before = OTHER_URL
    /\ origin = repo_url
    /\ binding.listing = repo_url
    /\ pushOutcome = "success"
\* C11 witness of the other outcomes: a run that found the same URL bound
\* could not re-add it and ended with status 1 before staging
C11_WitnessRejected ==
    /\ run = 2
    /\ binding.before = repo_url
    /\ ~binding.read
    /\ pc = "exited"
    /\ exitStatus = 1

\* the files of home directory h that backup_configs reads
SourceFiles(h) == UNION {FilesOf(h, CONFIG_PATHS[i]) : i \in DOMAIN CONFIG_PATHS}
\* the staging paths shutil.copy2 can write for them: the mirrored location,
\* or that location's entry of the same name when it is a directory
Destinations(h) ==
    {CONFIGS \o q : q \in SourceFiles(h)}
    \cup {CONFIGS \o q \o <<q[Len(q)]>> : q \in SourceFiles(h)}
\* the staging files under configs/ whose source file is gone from h
Stale(h, t) ==
    {p \in Files(t) : IsUnder(p, CONFIGS) /\ p \notin Destinations(h)}

====
